---- MODULE Spec2Model ----
(***************************************************************************)
(* A model of the stateful and recursive parts of the repository:          *)
(*   - bnpm/plotting_helpers.py : Select_ROI (click-driven ROI selection), *)
(*                                simple_cmap, savefig                      *)
(*   - h5_handling.py           : make_h5_tree, write_dict_to_h5,           *)
(*                                show_item_tree, show_group_items,         *)
(*                                h5py_dataset_iterator                     *)
(* Each part has its own specification (SpecROI, SpecH5, SpecCmap,         *)
(* SpecSavefig); the variables of the other parts stay at their idle value.*)
(***************************************************************************)
EXTENDS Integers, Sequences, FiniteSets, TLC

VARIABLES
    \* ---- Select_ROI (plotting_helpers.py 405-514)
    selected_points,            \* self.selected_points: list of polygons
    selected_points_last_ROI,   \* self._selected_points_last_ROI: polygon in progress
    n_alias,                    \* how many trailing elements of selected_points are the
                                \* very list object bound to _selected_points_last_ROI
    completed_status,           \* self._completed_status
    connected,                  \* the button_release_event callback is registered
    has_mask_frames,            \* the attribute self.mask_frames exists
    mask_frames,                \* self.mask_frames (<<>> while the attribute is absent)
    img_current,                \* polylines drawn on the copy of _img_input that
                                \* self._img_current displays
    last_exc,                   \* exception that ended the last handler ("none" if none)
    events,                     \* history of the GUI events that have occurred
    \* ---- h5_handling.py
    h5_file,                    \* the HDF5 file at path_save (absent, or its groups/datasets)
    h5_input,                   \* input_dict / hObj: the nested mapping handed to the call
    h5_mode,                    \* write_mode
    h5_pref,                    \* show_item_tree_pref
    h5_call,                    \* the call that has run ("none" before it)
    h5_result,                  \* how the call ended: "ok" or the exception raised
    stdout,                     \* the lines printed, in order
    h5_start,                   \* h5py_dataset_iterator: the group g it is started on
    h5_prefix,                  \* h5py_dataset_iterator: the argument prefix
    yielded,                    \* h5py_dataset_iterator: the pairs yielded, in order
    \* ---- simple_cmap (plotting_helpers.py 234-294)
    cmap_colors,                \* the argument colors
    cmap_result,                \* "none" before the call, then "ok" or the exception
    cmap,                       \* the colormap returned
    \* ---- savefig (plotting_helpers.py 377-398)
    fig_path,                   \* the argument path
    fig_mkdir,                  \* the argument mkdir
    fs_dirs,                    \* the directories that exist
    fs_files,                   \* the figure files written
    fig_result,                 \* "none" before the call, then "ok" or the exception
    lib_calls                   \* the library calls made by savefig, in order

roiVars == <<selected_points, selected_points_last_ROI, n_alias, completed_status,
             connected, has_mask_frames, mask_frames, img_current, last_exc, events>>

iterVars == <<h5_start, h5_prefix, yielded>>

h5Vars == <<h5_file, h5_input, h5_mode, h5_pref, h5_call, h5_result, stdout, iterVars>>

cmapVars == <<cmap_colors, cmap_result, cmap>>

figVars == <<fig_path, fig_mkdir, fs_dirs, fs_files, fig_result, lib_calls>>

vars == <<roiVars, h5Vars, cmapVars, figVars>>

-----------------------------------------------------------------------------
(* Generic helpers *)

Min(a, b) == IF a <= b THEN a ELSE b

Max(a, b) == IF a >= b THEN a ELSE b

-----------------------------------------------------------------------------
(***************************************************************************)
(* Select_ROI.  Coordinates (event.xdata, event.ydata) are floats; they    *)
(* are kept here in half-pixel units, so the data value v is stored as     *)
(* 2*v.  The image shown by imshow spans [-0.5, W-0.5] x [-0.5, H-0.5],    *)
(* i.e. -1 .. 2*W-1 in half-pixel units; pixel (r, c) has its centre at    *)
(* y = 2*r, x = 2*c.                                                       *)
(***************************************************************************)

ImgH == 2

ImgW == 2

MaxEvents == 5

\* an optional float: None is <<>>, the value v is <<v>>
None == <<>>

\* points of the image a click is delivered with, as <<xdata, ydata>>
ClickPts == { <<-1, -1>>, <<3, 0>>, <<1, 3>> }

ClickEvents == [type : {"click"}, xdata : {None}, ydata : {None}]
               \cup { [type |-> "click", xdata |-> <<p[1]>>, ydata |-> <<p[2]>>] : p \in ClickPts }

NewROIEvent == [type |-> "new_ROI", xdata |-> None, ydata |-> None]

ConfirmEvent == [type |-> "confirm", xdata |-> None, ydata |-> None]

Pixels == (0..(ImgH - 1)) \X (0..(ImgW - 1))

\* np.array(pts, np.int32): a float is truncated toward zero
Int32(h) == IF h >= 0 THEN h \div 2 ELSE -((-h) \div 2)

\* _poly_img: the int32 polyline that cv2.polylines draws (closed, thickness 2);
\* an empty point array draws nothing
poly_img(img, pts) ==
    IF pts = <<>> THEN img
    ELSE Append(img, [i \in 1..Len(pts) |-> <<Int32(pts[i][1]), Int32(pts[i][2])>>])

RECURSIVE DrawAll(_, _)
\* the loop of _onclick over self.selected_points
DrawAll(img, polys) ==
    IF polys = <<>> THEN img
    ELSE DrawAll(poly_img(img, Head(polys)), Tail(polys))

(* skimage.draw.polygon: the pixels whose centre is inside or on the
   boundary of the closed polygon (point-in-polygon fill rule). *)
Edge(pts, i) == <<pts[i], pts[(i % Len(pts)) + 1]>>

OnSegment(a, b, p) ==
    /\ (b[1] - a[1]) * (p[2] - a[2]) = (b[2] - a[2]) * (p[1] - a[1])
    /\ Min(a[1], b[1]) <= p[1] /\ p[1] <= Max(a[1], b[1])
    /\ Min(a[2], b[2]) <= p[2] /\ p[2] <= Max(a[2], b[2])

\* the horizontal ray from p toward +x crosses the edge a-b
Crosses(a, b, p) ==
    /\ (a[2] > p[2]) # (b[2] > p[2])
    /\ LET dy == b[2] - a[2]
           lhs == (p[1] - a[1]) * dy
           rhs == (p[2] - a[2]) * (b[1] - a[1])
       IN  IF dy > 0 THEN lhs < rhs ELSE lhs > rhs

point_in_polygon(pts, p) ==
    \/ \E i \in 1..Len(pts) : OnSegment(Edge(pts, i)[1], Edge(pts, i)[2], p)
    \/ Cardinality({i \in 1..Len(pts) : Crosses(Edge(pts, i)[1], Edge(pts, i)[2], p)}) % 2 = 1

\* one pass of the loop body of _disconnect_mpl: a boolean array of the image's
\* (height, width), True on the pixels skimage.draw.polygon returns
mask_frame(pts) ==
    [px \in Pixels |-> point_in_polygon(pts, <<2 * px[2], 2 * px[1]>>)]

\* np.array([]) is 1-dimensional, so pts[:, 1] raises IndexError for an empty polygon
RaisesIndexError(pts) == pts = <<>>

\* index of the first polygon at which the loop of _disconnect_mpl raises
\* (Len + 1 if it runs to completion)
FirstRaise(polys) ==
    IF \E i \in 1..Len(polys) : RaisesIndexError(polys[i])
    THEN CHOOSE i \in 1..Len(polys) :
            /\ RaisesIndexError(polys[i])
            /\ \A j \in 1..(i - 1) : ~RaisesIndexError(polys[j])
    ELSE Len(polys) + 1

\* self.mask_frames as the loop of _disconnect_mpl leaves it
compute_mask_frames(polys) ==
    [i \in 1..(FirstRaise(polys) - 1) |-> mask_frame(polys[i])]

\* list.append on the object bound to _selected_points_last_ROI: every element of
\* selected_points that is this same object sees the new point
AppendAliased(polys, k, pt) ==
    [i \in 1..Len(polys) |->
        IF i > Len(polys) - k THEN Append(polys[i], pt) ELSE polys[i]]

InitROI ==
    /\ selected_points = <<>>
    /\ selected_points_last_ROI = <<>>
    /\ n_alias = 0
    /\ completed_status = FALSE
    /\ connected = TRUE
    /\ has_mask_frames = FALSE
    /\ mask_frames = <<>>
    /\ img_current = <<>>
    /\ last_exc = "none"
    /\ events = <<>>

\* _onclick without the outside-the-image test (a missing click lands at the origin)
onclick_unguarded(event) ==
    LET pt   == IF event.xdata = None \/ event.ydata = None
                THEN <<0, 0>> ELSE <<event.xdata[1], event.ydata[1]>>
        cur  == Append(selected_points_last_ROI, pt)
        done == AppendAliased(selected_points, n_alias, pt)
    IN  /\ selected_points_last_ROI' = cur
        /\ selected_points' = done
        /\ img_current' = IF Len(cur) > 1
                            THEN poly_img(DrawAll(<<>>, done), cur)
                            ELSE img_current
        /\ last_exc' = "none"
        /\ UNCHANGED <<n_alias, completed_status, connected, has_mask_frames, mask_frames>>

\* Select_ROI._onclick(event)
onclick(event) ==
    IF event.xdata = None \/ event.ydata = None
    THEN /\ last_exc' = "none"
         /\ UNCHANGED <<selected_points, selected_points_last_ROI, n_alias,
                        completed_status, connected, has_mask_frames, mask_frames,
                        img_current>>
    ELSE LET pt   == <<event.xdata[1], event.ydata[1]>>
             cur  == Append(selected_points_last_ROI, pt)
             done == AppendAliased(selected_points, n_alias, pt)
         IN  /\ selected_points_last_ROI' = cur
             /\ selected_points' = done
             /\ img_current' = IF Len(cur) > 1
                                 THEN poly_img(DrawAll(<<>>, done), cur)
                                 ELSE img_current
             /\ last_exc' = "none"
             /\ UNCHANGED <<n_alias, completed_status, connected, has_mask_frames,
                            mask_frames>>

\* Select_ROI._disconnect_mpl(_)
disconnect_mpl ==
    LET polys == Append(selected_points, selected_points_last_ROI)
    IN  /\ selected_points' = polys
        /\ n_alias' = n_alias + 1
        /\ connected' = FALSE
        /\ completed_status' = TRUE
        /\ has_mask_frames' = TRUE
        /\ mask_frames' = compute_mask_frames(polys)
        /\ last_exc' = IF FirstRaise(polys) <= Len(polys) THEN "IndexError" ELSE "none"
        /\ UNCHANGED <<selected_points_last_ROI, img_current>>

\* _new_ROI that empties the list in place (del lst[:]) instead of rebinding the
\* name: the polygon just appended is the same object and is emptied with it
new_ROI_clear_in_place ==
    /\ selected_points' =
           [i \in 1..(Len(selected_points) + 1) |->
               IF i > Len(selected_points) - n_alias THEN <<>> ELSE selected_points[i]]
    /\ selected_points_last_ROI' = <<>>
    /\ n_alias' = n_alias + 1
    /\ last_exc' = "none"
    /\ UNCHANGED <<completed_status, connected, has_mask_frames, mask_frames, img_current>>

\* _new_ROI that rasterizes the closed polygons at once
new_ROI_eager_masks ==
    /\ selected_points' = Append(selected_points, selected_points_last_ROI)
    /\ selected_points_last_ROI' = <<>>
    /\ n_alias' = 0
    /\ has_mask_frames' = TRUE
    /\ mask_frames' = compute_mask_frames(selected_points')
    /\ last_exc' = "none"
    /\ UNCHANGED <<completed_status, connected, img_current>>

\* Select_ROI._new_ROI(_)
new_ROI ==
    /\ selected_points' = Append(selected_points, selected_points_last_ROI)
    /\ selected_points_last_ROI' = <<>>
    /\ n_alias' = 0
    /\ last_exc' = "none"
    /\ UNCHANGED <<completed_status, connected, has_mask_frames, mask_frames, img_current>>

-----------------------------------------------------------------------------
(***************************************************************************)
(* simple_cmap.  A colour is given by name ('w', 'r', 'b') or as an rgb    *)
(* triple; channel values are kept in tenths (1.0 is 10, 0.6 is 6).  The   *)
(* position of a control point is the float (i+1)/(n_colors-1), kept as    *)
(* the fraction <<numerator, denominator>>.                                *)
(***************************************************************************)

MaxColors == 3

Named(c) == [name |-> c, rgb |-> <<>>]

Rgb(t) == [name |-> "", rgb |-> t]

ColorSpecs == {Named("w"), Named("r"), Named("b"), Rgb(<<10, 6, 0>>)}

RECURSIVE SeqsUpTo(_, _)
\* the sequences over S of length at most n
SeqsUpTo(S, n) ==
    IF n = 0 THEN { <<>> }
    ELSE SeqsUpTo(S, n - 1)
         \cup {Append(s, x) : s \in {t \in SeqsUpTo(S, n - 1) : Len(t) = n - 1}, x \in S}

\* colorConverter.to_rgb
to_rgb(c) ==
    IF c.name = "w" THEN <<10, 10, 10>>
    ELSE IF c.name = "r" THEN <<10, 0, 0>>
    ELSE IF c.name = "b" THEN <<0, 0, 10>>
    ELSE c.rgb

\* the position off by one in the denominator
idx_over_n(i, n_colors) == <<i + 1, n_colors>>

\* idx = (i+1) / (n_colors-1)
idx(i, n_colors) == <<i + 1, n_colors - 1>>

ControlPoint(pos, y) == [pos |-> pos, y0 |-> y, y1 |-> y]

\* cdict[channel] after the loop; ch is 1 (red), 2 (green) or 3 (blue)
Channel(rgbs, ch) ==
    [k \in 1..Len(rgbs) |->
        IF k = 1 THEN ControlPoint(<<0, 1>>, rgbs[1][ch])
        ELSE ControlPoint(idx(k - 2, Len(rgbs)), rgbs[k][ch])]

NoCmap == [exists |-> FALSE, red |-> <<>>, green |-> <<>>, blue |-> <<>>,
           bad |-> <<>>, over |-> <<>>, under |-> <<>>]

\* the LinearSegmentedColormap returned, with the default under/over/bad colours
Colormap(rgbs) ==
    [exists |-> TRUE,
     red |-> Channel(rgbs, 1), green |-> Channel(rgbs, 2), blue |-> Channel(rgbs, 3),
     bad |-> <<9, 9, 9>>, over |-> <<5, 5, 5>>, under |-> <<0, 0, 0>>]

IdleCmap ==
    /\ cmap_colors = <<>>
    /\ cmap_result = "none"
    /\ cmap = NoCmap

InitCmap ==
    /\ cmap_colors \in SeqsUpTo(ColorSpecs, MaxColors)
    /\ cmap_result = "none"
    /\ cmap = NoCmap

\* simple_cmap(colors)
simple_cmap ==
    LET n_colors == Len(cmap_colors)
    IN  IF n_colors <= 1
        THEN /\ cmap_result' = "ValueError"
             /\ cmap' = NoCmap
        ELSE /\ cmap_result' = "ok"
             /\ cmap' = Colormap([k \in 1..n_colors |-> to_rgb(cmap_colors[k])])

-----------------------------------------------------------------------------
(***************************************************************************)
(* savefig.  A path is the directory it lies in (a sequence of directory   *)
(* names below the working directory) and its final component, the name,   *)
(* a sequence of tokens: "." or a piece of text without a dot.             *)
(***************************************************************************)

MaxName == 3

NameTokens == {"fig", ".", "png", "xyz"}

Parents == { <<>>, <<"d">>, <<"d", "e">> }

\* the formats plt.savefig can write, as kind
SupportedFormats == { <<"png">> }

\* Path(path).suffix: from the last dot of the name on, unless that dot is the
\* first or the last character
suffix(name) ==
    LET dots == {j \in 1..Len(name) : name[j] = "."}
    IN  IF dots = {} THEN <<>>
        ELSE LET j == CHOOSE j \in dots : \A k \in dots : k <= j
             IN  IF 1 < j /\ j < Len(name) THEN SubSeq(name, j, Len(name)) ELSE <<>>

\* kind keeping the dot of the suffix
kind_with_dot(path) == suffix(path.name)

\* kind = Path(path).suffix[1:]
kind(path) == Tail(suffix(path.name))

\* Path(path).parent.mkdir(exist_ok=True, parents=True)
mkdir_parents(dirs, parent) == dirs \cup {SubSeq(parent, 1, k) : k \in 0..Len(parent)}

MkdirCall(path) == [fn |-> "mkdir", dir |-> path.parent, format |-> <<>>]

SavefigCall(path, fmt) == [fn |-> "plt.savefig", dir |-> path.parent, format |-> fmt]

IdleFig ==
    /\ fig_path = [parent |-> <<>>, name |-> <<>>]
    /\ fig_mkdir = TRUE
    /\ fs_dirs = { <<>> }
    /\ fs_files = {}
    /\ fig_result = "none"
    /\ lib_calls = <<>>

InitFig ==
    /\ fig_path \in [parent : Parents, name : SeqsUpTo(NameTokens, MaxName) \ { <<>> }]
    /\ fig_mkdir \in BOOLEAN
    /\ fs_dirs \in { {SubSeq(p, 1, k) : k \in 0..Len(p)} : p \in Parents }
    /\ fs_files = {}
    /\ fig_result = "none"
    /\ lib_calls = <<>>

\* savefig(path, dpi, mkdir)
savefig ==
    IF ~(Len(suffix(fig_path.name)) > 0)
    THEN /\ fig_result' = "AssertionError"
         /\ UNCHANGED <<fs_dirs, fs_files, lib_calls>>
    ELSE LET fmt  == kind(fig_path)
             dirs == IF fig_mkdir THEN mkdir_parents(fs_dirs, fig_path.parent) ELSE fs_dirs
         IN  /\ fs_dirs' = dirs
             /\ lib_calls' = (IF fig_mkdir THEN <<MkdirCall(fig_path)>> ELSE <<>>)
                             \o <<SavefigCall(fig_path, fmt)>>
             /\ IF fmt \notin SupportedFormats
                THEN fig_result' = "ValueError" /\ UNCHANGED fs_files
                ELSE IF fig_path.parent \notin dirs
                THEN fig_result' = "FileNotFoundError" /\ UNCHANGED fs_files
                ELSE /\ fig_result' = "ok"
                     /\ fs_files' = fs_files \cup {[path |-> fig_path, format |-> fmt]}

-----------------------------------------------------------------------------
(***************************************************************************)
(* h5_handling.py.  A nested mapping (python dict) is the sequence of its  *)
(* items in insertion order; an item is [key, kind, leaf, items] with kind *)
(* "dict" (items: the sub-mapping) or "leaf" (leaf: the value).  A leaf is *)
(* a numpy array or a str.  An HDF5 file is the set of paths of its groups *)
(* (the root group is <<>>) and a function from dataset paths to data.     *)
(* Keys are valid HDF5 link names (no '/').  A string that names a path is *)
(* a sequence of tokens: a key, or the separator "/".                      *)
(***************************************************************************)

MaxNodes == 3

MaxPreNodes == 1

\* the keys, in the order h5py enumerates the members of a group (by name)
KeyOrder == <<"a", "b">>

Keys == {KeyOrder[i] : i \in 1..Len(KeyOrder)}

Leaves == {"ndarray", "str"}

LeafItem(k, v) == [key |-> k, kind |-> "leaf", leaf |-> v, items |-> <<>>]

DictItem(k, d) == [key |-> k, kind |-> "dict", leaf |-> "", items |-> d]

DictKeys(d) == {d[i].key : i \in 1..Len(d)}

RECURSIVE DictsOfSize(_)
\* every nested mapping with exactly n keys in all (sibling keys distinct)
DictsOfSize(n) ==
    IF n = 0 THEN { <<>> }
    ELSE UNION { LET firsts == IF m = 0
                               THEN {LeafItem(k, v) : k \in Keys, v \in Leaves}
                                    \cup {DictItem(k, <<>>) : k \in Keys}
                               ELSE {DictItem(k, sub) : k \in Keys, sub \in DictsOfSize(m)}
                 IN  UNION { { <<f>> \o rest :
                                 rest \in {r \in DictsOfSize(n - 1 - m) :
                                              f.key \notin DictKeys(r)} }
                           : f \in firsts }
               : m \in 0..(n - 1) }

DictsUpTo(n) == UNION {DictsOfSize(k) : k \in 0..n}

NoFile == [exists |-> FALSE, groups |-> {}, datasets |-> <<>>, err |-> "none"]

\* h5py.File(path, 'w') / ('w-' on a free path): a new file holding the root group
EmptyFile == [exists |-> TRUE, groups |-> {<<>>}, datasets |-> <<>>, err |-> "none"]

IsGroup(f, p) == p \in f.groups

IsDataset(f, p) == p \in DOMAIN f.datasets

\* h5_obj[name]: a name that starts with "/" is resolved from the root group,
\* any other from h5_obj; HDF5 reads consecutive separators as one
Components(name) == SelectSeq(name, LAMBDA t : t # "/")

getitem(h5_obj, name) ==
    IF name # <<>> /\ Head(name) = "/"
    THEN Components(name)
    ELSE h5_obj \o Components(name)

\* Group.create_group(key) on the group at path g
create_group(f, g, key) ==
    IF f.err # "none" THEN f
    ELSE IF ~IsGroup(f, g) THEN [f EXCEPT !.err = "KeyError"]
    ELSE IF IsGroup(f, Append(g, key)) \/ IsDataset(f, Append(g, key))
         THEN [f EXCEPT !.err = "ValueError"]
    ELSE [f EXCEPT !.groups = @ \cup {Append(g, key)}]

\* Group.create_dataset(key, data=val) on the group at path g
create_dataset(f, g, key, val) ==
    IF f.err # "none" THEN f
    ELSE IF ~IsGroup(f, g) THEN [f EXCEPT !.err = "KeyError"]
    ELSE IF IsGroup(f, Append(g, key)) \/ IsDataset(f, Append(g, key))
         THEN [f EXCEPT !.err = "ValueError"]
    ELSE [f EXCEPT !.datasets = (Append(g, key) :> val) @@ @]

RECURSIVE make_h5_tree(_, _, _, _)
\* make_h5_tree whose recursive call passes group_string on without the key
make_h5_tree_same_group(f, dict_obj, h5_obj, group_string) ==
    IF dict_obj = <<>> THEN f
    ELSE LET item == Head(dict_obj)
             gs   == IF group_string = <<>> THEN <<"/">> ELSE group_string
             g    == getitem(h5_obj, gs)
             f1   == IF item.kind = "dict"
                     THEN make_h5_tree(create_group(f, g, item.key), item.items, g, gs)
                     ELSE create_dataset(f, g, item.key, item.leaf)
         IN  make_h5_tree(f1, Tail(dict_obj), h5_obj, gs)

\* make_h5_tree(dict_obj, h5_obj, group_string) acting on the file f; the head of
\* dict_obj is one pass of the loop, the tail the passes that follow it
make_h5_tree(f, dict_obj, h5_obj, group_string) ==
    IF dict_obj = <<>> THEN f
    ELSE LET item == Head(dict_obj)
             gs   == IF group_string = <<>> THEN <<"/">> ELSE group_string
             g    == getitem(h5_obj, gs)
             f1   == IF item.kind = "dict"
                     THEN make_h5_tree(create_group(f, g, item.key), item.items, g,
                                       gs \o <<"/", item.key>>)
                     ELSE create_dataset(f, g, item.key, item.leaf)
         IN  make_h5_tree(f1, Tail(dict_obj), h5_obj, gs)

(* show_item_tree.  hObj is a dict ([type |-> "dict", items]) or a group of an
   open file ([type |-> "h5", file, path]).  A printed line is
   [indent, num, key, kind]: indent spaces, then "num. key:" and a group
   marker, a shape/dtype summary or a type summary. *)
DictObj(d) == [type |-> "dict", items |-> d, file |-> NoFile, path |-> <<>>]

H5Obj(f, p) == [type |-> "h5", items |-> <<>>, file |-> f, path |-> p]

\* list(iter(hObj))
iter(hObj) ==
    IF hObj.type = "dict"
    THEN [i \in 1..Len(hObj.items) |-> hObj.items[i].key]
    ELSE SelectSeq(KeyOrder, LAMBDA k : \/ IsGroup(hObj.file, Append(hObj.path, k))
                                        \/ IsDataset(hObj.file, Append(hObj.path, k)))

\* what each test of the if/elif/else chain sees in hObj[val]
ItemOf(hObj, val) ==
    LET i == CHOOSE i \in 1..Len(hObj.items) : hObj.items[i].key = val
    IN  hObj.items[i]

IsH5Group(hObj, val) == hObj.type = "h5" /\ IsGroup(hObj.file, Append(hObj.path, val))

IsPyDict(hObj, val) == hObj.type = "dict" /\ ItemOf(hObj, val).kind = "dict"

\* an h5py Dataset and a numpy array have both .shape and .dtype; an h5py Group,
\* a dict and a str have neither
HasShapeAndDtype(hObj, val) ==
    IF hObj.type = "h5"
    THEN IsDataset(hObj.file, Append(hObj.path, val))
    ELSE ItemOf(hObj, val).leaf = "ndarray"

\* hObj[val], for the recursive call
Child(hObj, val) ==
    IF hObj.type = "h5"
    THEN H5Obj(hObj.file, Append(hObj.path, val))
    ELSE DictObj(ItemOf(hObj, val).items)

\* a line numbered with ii instead of ii+1
Line_zero_based(indent_level, ii, val, what) ==
    [indent |-> 2 * indent_level, num |-> ii, key |-> val, kind |-> what]

Line(indent_level, ii, val, what) ==
    [indent |-> 2 * indent_level, num |-> ii + 1, key |-> val, kind |-> what]

RECURSIVE show_item_tree(_, _)
RECURSIVE show_items_from(_, _, _, _)
\* passes ii, ii+1, ... of the loop "for ii,val in enumerate(list(iter(hObj)))"
\* (ii counts from 0); the files modelled carry no attributes, so the METADATA
\* loop prints nothing
show_items_from(hObj, names, ii, indent_level) ==
    IF ii >= Len(names) THEN <<>>
    ELSE LET val == names[ii + 1]
             out == IF IsH5Group(hObj, val) \/ IsPyDict(hObj, val)
                    THEN <<Line(indent_level, ii, val, "group")>>
                         \o show_item_tree(Child(hObj, val), indent_level + 1)
                    ELSE IF HasShapeAndDtype(hObj, val)
                         THEN <<Line(indent_level, ii, val, "shape")>>
                         ELSE <<Line(indent_level, ii, val, "type")>>
         IN  out \o show_items_from(hObj, names, ii + 1, indent_level)

show_item_tree(hObj, indent_level) ==
    show_items_from(hObj, iter(hObj), 0, indent_level)

RECURSIVE show_group_items_from(_, _, _)
\* passes ii, ii+1, ... of the loop of show_group_items: an "if" on h5py.Group,
\* then a separate "if ... else" on dict
show_group_items_from(hObj, names, ii) ==
    IF ii >= Len(names) THEN <<>>
    ELSE LET val    == names[ii + 1]
             first  == IF IsH5Group(hObj, val)
                       THEN <<Line(0, ii, val, "group")>>
                       ELSE <<>>
             second == IF IsPyDict(hObj, val)
                       THEN <<Line(0, ii, val, "group")>>
                       ELSE IF HasShapeAndDtype(hObj, val)
                            THEN <<Line(0, ii, val, "shape")>>
                            ELSE <<Line(0, ii, val, "type")>>
         IN  first \o second \o show_group_items_from(hObj, names, ii + 1)

\* show_group_items(hObj)
show_group_items(hObj) == show_group_items_from(hObj, iter(hObj), 0)

\* the path formatted without the separator
ItemPath_no_slash(prefix, key) == Append(prefix, key)

\* path = '{}/{}'.format(prefix, key)
ItemPath(prefix, key) == prefix \o <<"/", key>>

RECURSIVE h5py_dataset_iterator(_, _, _)
RECURSIVE dataset_iterator_from(_, _, _, _, _)
\* passes n, n+1, ... (from 1) of the loop "for key in g.keys()" on the group at
\* path g of the file f; the result is the sequence of the pairs yielded
dataset_iterator_from(f, g, prefix, names, n) ==
    IF n > Len(names) THEN <<>>
    ELSE LET key  == names[n]
             item == Append(g, key)
             path == ItemPath(prefix, key)
             out  == IF IsDataset(f, item)
                     THEN <<[path |-> path, item |-> item]>>
                     ELSE IF IsGroup(f, item)
                          THEN h5py_dataset_iterator(f, item, path)
                          ELSE <<>>
         IN  out \o dataset_iterator_from(f, g, prefix, names, n + 1)

\* h5py_dataset_iterator(g, prefix), g being the group at path g of the file f
h5py_dataset_iterator(f, g, prefix) ==
    dataset_iterator_from(f, g, prefix, iter(H5Obj(f, g)), 1)

\* the prefixes a caller passes: the default '' or a name
Prefixes == { <<>>, <<"top">> }

Banner == [indent |-> 0, num |-> 0, key |-> "", kind |-> "banner"]

\* the files that can already lie at path_save: none, or one written earlier
PreFiles == {NoFile} \cup {make_h5_tree(EmptyFile, d, <<>>, <<>>) : d \in DictsUpTo(MaxPreNodes)}

IdleH5 ==
    /\ h5_file = NoFile
    /\ h5_input = <<>>
    /\ h5_mode = "w-"
    /\ h5_pref = TRUE
    /\ h5_call = "none"
    /\ h5_result = "none"
    /\ stdout = <<>>
    /\ h5_start = <<>>
    /\ h5_prefix = <<>>
    /\ yielded = <<>>

InitH5 ==
    /\ h5_file \in PreFiles
    /\ h5_input \in DictsUpTo(MaxNodes)
    /\ h5_mode \in {"w", "w-"}
    /\ h5_pref \in BOOLEAN
    /\ h5_call = "none"
    /\ h5_result = "none"
    /\ stdout = <<>>
    /\ h5_start = <<>>
    /\ h5_prefix = <<>>
    /\ yielded = <<>>

\* write_dict_to_h5 that opens the file in append mode ('a') whatever write_mode is
write_dict_to_h5_append ==
    LET hf == make_h5_tree(IF h5_file.exists THEN h5_file ELSE EmptyFile,
                           h5_input, <<>>, <<>>)
    IN  /\ h5_file' = [hf EXCEPT !.err = "none"]
        /\ h5_result' = IF hf.err = "none" THEN "ok" ELSE hf.err
        /\ stdout' = IF hf.err = "none" /\ h5_pref
                     THEN <<Banner>> \o show_item_tree(H5Obj(hf, <<>>), 0)
                     ELSE <<>>

\* write_dict_to_h5(path_save, input_dict, write_mode, show_item_tree_pref)
write_dict_to_h5 ==
    IF h5_mode = "w-" /\ h5_file.exists
    THEN /\ h5_result' = "FileExistsError"
         /\ UNCHANGED <<h5_file, stdout>>
    ELSE LET hf == make_h5_tree(EmptyFile, h5_input, <<>>, <<>>)
         IN  /\ h5_file' = [hf EXCEPT !.err = "none"]
             /\ h5_result' = IF hf.err = "none" THEN "ok" ELSE hf.err
             /\ stdout' = IF hf.err = "none" /\ h5_pref
                          THEN <<Banner>> \o show_item_tree(H5Obj(hf, <<>>), 0)
                          ELSE <<>>

WriteDictToH5 ==
    /\ h5_call = "none"
    /\ h5_call' = "write_dict_to_h5"
    /\ write_dict_to_h5
    /\ UNCHANGED <<h5_input, h5_mode, h5_pref, iterVars>>
    /\ UNCHANGED <<roiVars, cmapVars, figVars>>

\* show_item_tree(hObj=input dict)
ShowItemTreeDict ==
    /\ h5_call = "none"
    /\ h5_call' = "show_item_tree(hObj)"
    /\ stdout' = show_item_tree(DictObj(h5_input), 0)
    /\ h5_result' = "ok"
    /\ UNCHANGED <<h5_file, h5_input, h5_mode, h5_pref, iterVars>>
    /\ UNCHANGED <<roiVars, cmapVars, figVars>>

\* show_item_tree(path=path_save): opens the file read-only and prints its tree
ShowItemTreePath ==
    /\ h5_call = "none"
    /\ h5_call' = "show_item_tree(path)"
    /\ IF h5_file.exists
       THEN /\ stdout' = show_item_tree(H5Obj(h5_file, <<>>), 0)
            /\ h5_result' = "ok"
       ELSE /\ stdout' = <<>>
            /\ h5_result' = "FileNotFoundError"
    /\ UNCHANGED <<h5_file, h5_input, h5_mode, h5_pref, iterVars>>
    /\ UNCHANGED <<roiVars, cmapVars, figVars>>

\* a further call is made on a fresh session or on the file a write has just left
NoCallOrWritten ==
    \/ h5_call = "none"
    \/ h5_call = "write_dict_to_h5" /\ h5_result = "ok"

\* show_group_items(hObj=input dict)
ShowGroupItemsDict ==
    /\ h5_call = "none"
    /\ h5_call' = "show_group_items(dict)"
    /\ stdout' = show_group_items(DictObj(h5_input))
    /\ h5_result' = "ok"
    /\ UNCHANGED <<h5_file, h5_input, h5_mode, h5_pref, iterVars>>
    /\ UNCHANGED <<roiVars, cmapVars, figVars>>

\* with h5py.File(path, 'r') as f: show_group_items(f)
ShowGroupItemsFile ==
    /\ NoCallOrWritten
    /\ h5_file.exists
    /\ h5_call' = "show_group_items(h5)"
    /\ stdout' = show_group_items(H5Obj(h5_file, <<>>))
    /\ h5_result' = "ok"
    /\ UNCHANGED <<h5_file, h5_input, h5_mode, h5_pref, iterVars>>
    /\ UNCHANGED <<roiVars, cmapVars, figVars>>

\* list(h5py_dataset_iterator(g, prefix)) on a group g of the open file
H5pyDatasetIterator ==
    /\ NoCallOrWritten
    /\ h5_file.exists
    /\ h5_call' = "h5py_dataset_iterator"
    /\ \E g \in h5_file.groups, prefix \in Prefixes :
          /\ h5_start' = g
          /\ h5_prefix' = prefix
          /\ yielded' = h5py_dataset_iterator(h5_file, g, prefix)
    /\ h5_result' = "ok"
    /\ UNCHANGED <<h5_file, h5_input, h5_mode, h5_pref, stdout>>
    /\ UNCHANGED <<roiVars, cmapVars, figVars>>

NextH5 ==
    \/ WriteDictToH5
    \/ ShowItemTreeDict
    \/ ShowItemTreePath
    \/ ShowGroupItemsDict
    \/ ShowGroupItemsFile
    \/ H5pyDatasetIterator

InitSpecH5 == InitH5 /\ InitROI /\ IdleCmap /\ IdleFig

SpecH5 == InitSpecH5 /\ [][NextH5]_vars

-----------------------------------------------------------------------------
(* The GUI event loop of Select_ROI: a pointer click reaches _onclick only
   while the callback is registered; the two buttons stay wired for the
   object's life. *)
Click ==
    /\ Len(events) < MaxEvents
    /\ \E e \in ClickEvents :
        /\ events' = Append(events, e)
        /\ IF connected
           THEN onclick(e)
           ELSE UNCHANGED <<selected_points, selected_points_last_ROI, n_alias,
                            completed_status, connected, has_mask_frames, mask_frames,
                            img_current, last_exc>>
    /\ UNCHANGED <<h5Vars, cmapVars, figVars>>

PressNewROI ==
    /\ Len(events) < MaxEvents
    /\ events' = Append(events, NewROIEvent)
    /\ new_ROI
    /\ UNCHANGED <<h5Vars, cmapVars, figVars>>

PressConfirm ==
    /\ Len(events) < MaxEvents
    /\ events' = Append(events, ConfirmEvent)
    /\ disconnect_mpl
    /\ UNCHANGED <<h5Vars, cmapVars, figVars>>

NextROI == Click \/ PressNewROI \/ PressConfirm

InitSpecROI == InitROI /\ IdleH5 /\ IdleCmap /\ IdleFig

SpecROI == InitSpecROI /\ [][NextROI]_vars

-----------------------------------------------------------------------------
(* simple_cmap and savefig as calls *)
CallSimpleCmap ==
    /\ cmap_result = "none"
    /\ simple_cmap
    /\ UNCHANGED <<cmap_colors, roiVars, h5Vars, figVars>>

NextCmap == CallSimpleCmap

InitSpecCmap == InitCmap /\ InitROI /\ IdleH5 /\ IdleFig

SpecCmap == InitSpecCmap /\ [][NextCmap]_vars

CallSavefig ==
    /\ fig_result = "none"
    /\ savefig
    /\ UNCHANGED <<fig_path, fig_mkdir, roiVars, h5Vars, cmapVars>>

NextFig == CallSavefig

InitSpecFig == InitFig /\ InitROI /\ IdleH5 /\ IdleCmap

SpecSavefig == InitSpecFig /\ [][NextFig]_vars

-----------------------------------------------------------------------------
(* Properties of Select_ROI *)

roiState == <<selected_points, selected_points_last_ROI, n_alias, completed_status,
              connected, has_mask_frames, mask_frames, img_current>>

LastEvent == events[Len(events)]

NoConfirm(ev) == \A i \in 1..Len(ev) : ev[i].type # "confirm"

InBounds(e) == e.type = "click" /\ e.xdata # None /\ e.ydata # None

\* C1: once confirm has set the finished status, no later click, 'New ROI' press
\* or 'Confirm ROI' press changes mask_frames, and len(mask_frames) stays equal to
\* len(selected_points).  Stated as the step of that claim from a finished state
\* whose confirm rasterized every polygon, so that the step alone decides it.
C1_FinishedMasksFrozen ==
    [][ (completed_status /\ Len(mask_frames) = Len(selected_points))
        => (mask_frames' = mask_frames /\ Len(mask_frames') = Len(selected_points')) ]_vars

\* C2: from any collecting-points state, confirm appends the polygon in progress
\* as the last element of selected_points, detaches the click handler, sets the
\* finished status and leaves exactly one boolean (height, width) mask per element
\* of selected_points, in order; afterwards a click changes nothing.
C2_ConfirmRasterizesAll ==
    [][ /\ (~completed_status /\ events' = Append(events, ConfirmEvent))
           => /\ selected_points' = Append(selected_points, selected_points_last_ROI)
              /\ ~connected'
              /\ completed_status'
              /\ has_mask_frames'
              /\ Len(mask_frames') = Len(selected_points')
              /\ \A i \in 1..Len(mask_frames') :
                    /\ DOMAIN mask_frames'[i] = Pixels
                    /\ mask_frames'[i] = mask_frame(selected_points'[i])
        /\ (completed_status /\ events' # events /\ events'[Len(events')].type = "click")
           => UNCHANGED roiState ]_vars

(* What the history of events says the polygons are: the k-th closed polygon
   holds the in-bounds clicks between the (k-1)-th and the k-th 'New ROI'. *)
NewIdx(ev) == {i \in 1..Len(ev) : ev[i].type = "new_ROI"}

NthNew(ev, k) ==
    IF k = 0 THEN 0
    ELSE CHOOSE i \in NewIdx(ev) : Cardinality({j \in NewIdx(ev) : j <= i}) = k

ClicksBetween(ev, lo, hi) ==
    LET hits == SelectSeq(SubSeq(ev, lo + 1, hi - 1), InBounds)
    IN  [i \in 1..Len(hits) |-> <<hits[i].xdata[1], hits[i].ydata[1]>>]

ExpectedPolys(ev) ==
    [k \in 1..Cardinality(NewIdx(ev)) |->
        ClicksBetween(ev, NthNew(ev, k - 1), NthNew(ev, k))]

ExpectedLast(ev) ==
    ClicksBetween(ev, NthNew(ev, Cardinality(NewIdx(ev))), Len(ev) + 1)

\* C3: before confirm, selected_points is the sequence of polygons closed by the
\* 'New ROI' presses, in order, each holding the points clicked since the previous
\* press in click order; _selected_points_last_ROI holds the points clicked since
\* the last press; the state is still collecting-points.
C3_PolygonsFollowEvents ==
    NoConfirm(events) =>
        /\ selected_points = ExpectedPolys(events)
        /\ selected_points_last_ROI = ExpectedLast(events)
        /\ ~completed_status
        /\ connected

C3_Witness ==
    /\ NoConfirm(events)
    /\ Len(selected_points) = 2
    /\ Len(selected_points[1]) = 2
    /\ selected_points[2] # selected_points[1]
    /\ Len(selected_points_last_ROI) = 1

\* C4: a click outside the image (xdata or ydata is None) leaves selected_points,
\* _selected_points_last_ROI, _completed_status, mask_frames and the displayed
\* image data unchanged, whatever the state.
C4_OutsideClickIgnored ==
    [][ (events' # events /\ events'[Len(events')].type = "click"
                          /\ ~InBounds(events'[Len(events')]))
        => UNCHANGED <<selected_points, selected_points_last_ROI, completed_status,
                       has_mask_frames, mask_frames, img_current>> ]_vars

C4_Witness ==
    /\ events # <<>>
    /\ LastEvent.type = "click" /\ ~InBounds(LastEvent)
    /\ connected
    /\ Len(selected_points) = 1
    /\ Len(selected_points_last_ROI) = 2
    /\ img_current # <<>>

\* C5: mask_frames exists only once _completed_status is True; before the first
\* confirm no click and no 'New ROI' creates or fills it.
C5_MasksOnlyWhenFinished ==
    /\ (has_mask_frames \/ mask_frames # <<>>) => completed_status
    /\ NoConfirm(events) => (~has_mask_frames /\ mask_frames = <<>>)

C5_Witness ==
    /\ completed_status
    /\ has_mask_frames
    /\ Len(mask_frames) = 2
    /\ Len(events) = 4

-----------------------------------------------------------------------------
(* Properties of h5_handling.py *)

RECURSIVE GroupPathsOf(_)
\* the key paths of a mapping whose value is a mapping
GroupPathsOf(d) ==
    UNION { IF d[i].kind = "dict"
            THEN {<<d[i].key>>} \cup {<<d[i].key>> \o p : p \in GroupPathsOf(d[i].items)}
            ELSE {}
          : i \in 1..Len(d) }

RECURSIVE LeafPairsOf(_)
\* the pairs <<key path, value>> of a mapping's leaves
LeafPairsOf(d) ==
    UNION { IF d[i].kind = "leaf"
            THEN { <<(<<d[i].key>>), d[i].leaf>> }
            ELSE { <<(<<d[i].key>> \o q[1]), q[2]>> : q \in LeafPairsOf(d[i].items) }
          : i \in 1..Len(d) }

RECURSIVE SortDict(_)
\* a mapping with the keys of every level in name order (dict equality ignores order)
SortDict(d) ==
    LET names == SelectSeq(KeyOrder, LAMBDA k : k \in DictKeys(d))
        at(k) == d[CHOOSE i \in 1..Len(d) : d[i].key = k]
    IN  [n \in 1..Len(names) |->
            IF at(names[n]).kind = "dict"
            THEN DictItem(names[n], SortDict(at(names[n]).items))
            ELSE at(names[n])]

RECURSIVE ReadBack(_, _)
\* the group at path p of a file read as a nested mapping
ReadBack(f, p) ==
    LET names == SelectSeq(KeyOrder, LAMBDA k : IsGroup(f, Append(p, k))
                                                \/ IsDataset(f, Append(p, k)))
    IN  [n \in 1..Len(names) |->
            IF IsGroup(f, Append(p, names[n]))
            THEN DictItem(names[n], ReadBack(f, Append(p, names[n])))
            ELSE LeafItem(names[n], f.datasets[Append(p, names[n])])]

Mirrors(f, d) ==
    /\ f.exists
    /\ f.groups = {<<>>} \cup GroupPathsOf(d)
    /\ DOMAIN f.datasets = {q[1] : q \in LeafPairsOf(d)}
    /\ \A q \in LeafPairsOf(d) : f.datasets[q[1]] = q[2]
    /\ ReadBack(f, <<>>) = SortDict(d)

\* C6: a nested mapping written into an empty container is mirrored 1:1: the
\* groups are the key paths whose value is a mapping, the datasets the key paths
\* whose value is a leaf, each dataset holds its leaf's value, nothing else is
\* created, and reading the container back gives the mapping again.
C6_TreeMirrorsMapping ==
    (h5_call = "write_dict_to_h5" /\ h5_result # "FileExistsError") =>
        /\ h5_result = "ok"
        /\ Mirrors(h5_file, h5_input)

C6_Witness ==
    /\ h5_call = "write_dict_to_h5"
    /\ h5_result = "ok"
    /\ \E p \in h5_file.groups : Len(p) = 2
    /\ \E p \in h5_file.groups : p # <<>> /\ ReadBack(h5_file, p) = <<>>
    /\ \E p \in DOMAIN h5_file.datasets : h5_file.datasets[p] = "str"

\* C7: with write mode 'w-' and a file already at the path the call fails with
\* an already-exists error, nothing is written or printed and the file is as it
\* was; with write mode 'w' the call succeeds and the file holds only the tree of
\* input_dict.
C7_WriteModes ==
    [][ (h5_call = "none" /\ h5_call' = "write_dict_to_h5") =>
           /\ (h5_mode = "w-" /\ h5_file.exists) =>
                 /\ h5_result' = "FileExistsError"
                 /\ h5_file' = h5_file
                 /\ stdout' = <<>>
           /\ h5_mode = "w" =>
                 /\ h5_result' = "ok"
                 /\ Mirrors(h5_file', h5_input) ]_vars

C7_Witness ==
    /\ h5_call = "write_dict_to_h5"
    /\ h5_mode = "w-"
    /\ h5_result = "FileExistsError"
    /\ h5_file.groups # {<<>>}
    /\ h5_input # <<>>
    /\ ~Mirrors(h5_file, h5_input)

(* The lines show_item_tree is to print, placed by position: a node's line
   comes after the lines of the nodes that precede it in pre-order. *)
RECURSIVE NodeIdxPaths(_)
\* the nodes of a mapping, each as the sequence of 1-based positions leading to it
NodeIdxPaths(d) ==
    UNION { {<<i>>} \cup {<<i>> \o p : p \in NodeIdxPaths(d[i].items)} : i \in 1..Len(d) }

RECURSIVE ItemAt(_, _)
ItemAt(d, p) == IF Len(p) = 1 THEN d[p[1]] ELSE ItemAt(d[p[1]].items, Tail(p))

IsPrefix(q, p) == Len(q) <= Len(p) /\ SubSeq(p, 1, Len(q)) = q

\* q comes before p in pre-order (positions compared level by level)
Before(q, p) ==
    /\ q # p
    /\ \/ IsPrefix(q, p)
       \/ \E i \in 1..Min(Len(q), Len(p)) :
             /\ q[i] < p[i]
             /\ SubSeq(q, 1, i - 1) = SubSeq(p, 1, i - 1)

KindOfItem(item) ==
    IF item.kind = "dict" THEN "group"
    ELSE IF item.leaf = "ndarray" THEN "shape" ELSE "type"

PrintsDict(out, d) ==
    /\ Len(out) = Cardinality(NodeIdxPaths(d))
    /\ \A p \in NodeIdxPaths(d) :
          out[1 + Cardinality({q \in NodeIdxPaths(d) : Before(q, p)})]
             = [indent |-> 2 * (Len(p) - 1), num |-> p[Len(p)],
                key |-> ItemAt(d, p).key, kind |-> KindOfItem(ItemAt(d, p))]

KeyIdx(k) == CHOOSE i \in 1..Len(KeyOrder) : KeyOrder[i] = k

FileNodes(f) == (f.groups \ {<<>>}) \cup DOMAIN f.datasets

\* the positions, among its siblings, of the keys on the way to a node of a file
IdxPath(f, p) ==
    [i \in 1..Len(p) |->
        1 + Cardinality({q \in FileNodes(f) :
                            /\ Len(q) = i
                            /\ SubSeq(q, 1, i - 1) = SubSeq(p, 1, i - 1)
                            /\ KeyIdx(q[i]) < KeyIdx(p[i])})]

PrintsFile(out, f) ==
    /\ Len(out) = Cardinality(FileNodes(f))
    /\ \A p \in FileNodes(f) :
          out[1 + Cardinality({q \in FileNodes(f) : Before(IdxPath(f, q), IdxPath(f, p))})]
             = [indent |-> 2 * (Len(p) - 1), num |-> IdxPath(f, p)[Len(p)],
                key |-> p[Len(p)], kind |-> IF IsGroup(f, p) THEN "group" ELSE "shape"]

\* C8: show_item_tree prints the item lines in pre-order following the
\* enumeration order of the keys at each level: an item at depth d is indented by
\* 2*d spaces and numbered with its 1-based position among its siblings, and a
\* group's line is followed by the lines of its whole subtree before the line of
\* its next sibling.
C8_PreOrderLines ==
    /\ h5_call = "show_item_tree(hObj)" => PrintsDict(stdout, h5_input)
    /\ (h5_call = "show_item_tree(path)" /\ h5_result = "ok") => PrintsFile(stdout, h5_file)
    /\ (h5_call = "write_dict_to_h5" /\ h5_result = "ok" /\ h5_pref) =>
          /\ stdout # <<>>
          /\ Head(stdout) = Banner
          /\ PrintsFile(Tail(stdout), h5_file)

C8_Witness ==
    /\ h5_call = "show_item_tree(hObj)"
    /\ Len(stdout) = 3
    /\ stdout[1].kind = "group" /\ stdout[1].indent = 0 /\ stdout[1].num = 1
    /\ stdout[2].indent = 2 /\ stdout[2].num = 1
    /\ stdout[3].indent = 0 /\ stdout[3].num = 2 /\ stdout[3].kind = "type"

-----------------------------------------------------------------------------
(* Properties of simple_cmap and savefig *)

FracLess(a, b) == a[1] * b[2] < b[1] * a[2]

FracEq(a, b) == a[1] * b[2] = b[1] * a[2]

ChannelOk(points, colors, ch) ==
    LET n == Len(colors)
    IN  /\ Len(points) = n
        /\ Len(points) >= 2
        /\ \A k \in 1..n :
              /\ points[k].pos[2] > 0
              /\ FracEq(points[k].pos, <<k - 1, n - 1>>)
              /\ points[k].y0 = to_rgb(colors[k])[ch]
              /\ points[k].y1 = to_rgb(colors[k])[ch]
        /\ \A k \in 1..(n - 1) : FracLess(points[k].pos, points[k + 1].pos)
        /\ points[1].pos[1] = 0
        /\ points[n].pos[1] = points[n].pos[2]

\* C9: a colormap returned by simple_cmap has at least two control points per
\* channel, the point of colour i (0-based) of n at position i/(n-1): positions
\* strictly increase, the first is 0 with the first colour, the last is 1 with the
\* last colour; with fewer than two colours ValueError is raised and no colormap
\* is returned.
C9_ControlPoints ==
    cmap_result # "none" =>
        IF Len(cmap_colors) < 2
        THEN cmap_result = "ValueError" /\ ~cmap.exists
        ELSE /\ cmap_result = "ok"
             /\ cmap.exists
             /\ ChannelOk(cmap.red, cmap_colors, 1)
             /\ ChannelOk(cmap.green, cmap_colors, 2)
             /\ ChannelOk(cmap.blue, cmap_colors, 3)

C9_Witness ==
    /\ cmap_result = "ok"
    /\ Len(cmap.red) = 3
    /\ cmap.red[2].pos = <<1, 2>>
    /\ cmap.red[1].y0 # cmap.red[3].y0

LastDot(name) == CHOOSE j \in 1..Len(name) : name[j] = "." /\ \A k \in (j + 1)..Len(name) : name[k] # "."

\* the name has a file-extension suffix: a dot that is neither its first nor its
\* last character starts the last extension
HasSuffix(name) ==
    /\ \E j \in 1..Len(name) : name[j] = "."
    /\ 1 < LastDot(name)
    /\ LastDot(name) < Len(name)

\* C10: a path without a suffix is rejected with an assertion error before any
\* side effect (no directory created, no file written, no library call made);
\* for a path with a suffix and mkdir=True the parent directories are created
\* before the figure is written, and the format handed to plt.savefig is the
\* suffix without its leading dot.
C10_SavefigSuffix ==
    [][ fig_result' # fig_result =>
          IF ~HasSuffix(fig_path.name)
          THEN /\ fig_result' = "AssertionError"
               /\ UNCHANGED <<fs_dirs, fs_files, lib_calls>>
          ELSE LET fmt == SubSeq(fig_path.name, LastDot(fig_path.name) + 1,
                                 Len(fig_path.name))
               IN  /\ fig_result' # "AssertionError"
                   /\ lib_calls'[Len(lib_calls')] = SavefigCall(fig_path, fmt)
                   /\ \A f \in fs_files' \ fs_files : f.format = fmt /\ f.path = fig_path
                   /\ fig_mkdir =>
                         /\ lib_calls' = <<MkdirCall(fig_path), SavefigCall(fig_path, fmt)>>
                         /\ \A k \in 0..Len(fig_path.parent) :
                               SubSeq(fig_path.parent, 1, k) \in fs_dirs'
                         /\ fig_result' # "FileNotFoundError" ]_vars

C10_Witness ==
    /\ fig_result = "ok"
    /\ fig_mkdir
    /\ fig_path.parent = <<"d", "e">>
    /\ fig_path.name = <<"fig", ".", "png">>
    /\ fs_files # {}
    /\ Len(lib_calls) = 2

-----------------------------------------------------------------------------
(* Properties of show_group_items and h5py_dataset_iterator *)

\* the names at the highest level of what show_group_items was called on
TopNames ==
    IF h5_call = "show_group_items(dict)"
    THEN [i \in 1..Len(h5_input) |-> h5_input[i].key]
    ELSE SelectSeq(KeyOrder, LAMBDA k : <<k>> \in FileNodes(h5_file))

TopKind(i) ==
    IF h5_call = "show_group_items(dict)"
    THEN KindOfItem(h5_input[i])
    ELSE IF IsGroup(h5_file, <<TopNames[i]>>) THEN "group" ELSE "shape"

\* C11: show_group_items prints exactly one line per item of the highest level,
\* in enumeration order and numbered from 1: a group marker line for an h5 group
\* or a dict, a shape/dtype or type line for any other item, never two lines for
\* one item.
C11_OneLinePerItem ==
    h5_call \in {"show_group_items(dict)", "show_group_items(h5)"} =>
        /\ Len(stdout) = Len(TopNames)
        /\ \A i \in 1..Len(TopNames) :
              stdout[i] = [indent |-> 0, num |-> i, key |-> TopNames[i], kind |-> TopKind(i)]

\* the datasets beneath the group the iterator was started on
DatasetsBelow(f, g) == {p \in DOMAIN f.datasets : IsPrefix(g, p)}

\* '/'-joined keys, one '/' before each key
Slashed(keys) ==
    [i \in 1..(2 * Len(keys)) |-> IF i % 2 = 1 THEN "/" ELSE keys[i \div 2]]

\* C12: h5py_dataset_iterator yields each dataset of the tree exactly once and
\* never a group, in pre-order following key enumeration order, and the path
\* yielded with a dataset is the prefix followed by the '/'-joined keys leading
\* from the starting group to the dataset.
C12_IteratorYieldsDatasets ==
    h5_call = "h5py_dataset_iterator" =>
        LET below == DatasetsBelow(h5_file, h5_start)
        IN  /\ Len(yielded) = Cardinality(below)
            /\ \A i \in 1..Len(yielded) : IsDataset(h5_file, yielded[i].item)
            /\ \A p \in below :
                  yielded[1 + Cardinality({q \in below :
                                  Before(IdxPath(h5_file, q), IdxPath(h5_file, p))})]
                     = [path |-> h5_prefix
                                 \o Slashed(SubSeq(p, Len(h5_start) + 1, Len(p))),
                        item |-> p]

C12_Witness ==
    /\ h5_call = "h5py_dataset_iterator"
    /\ h5_start = <<>>
    /\ h5_prefix # <<>>
    /\ Len(yielded) = 2
    /\ Len(yielded[1].item) = 2
    /\ Len(yielded[2].item) = 1
    /\ Cardinality(h5_file.groups) = 2

====
